---- MODULE Spec2Model ----
(***************************************************************************)
(* Staff Graded Assignment XBlock (edx_sga/edx_sga.py).                    *)
(*                                                                         *)
(* State: the per-student state store (StudentModule rows, one JSON state  *)
(* per (location, student)), the blob store behind default_storage, the    *)
(* wall clock read by _now() and the response to the latest request.       *)
(*                                                                         *)
(* Specifications.                                                         *)
(*  - Spec: requests handled one at a time, each handler one step.         *)
(*  - FrameSpec: the handlers of Spec together with staff entering scores  *)
(*    and save_sga editing the Scope.settings fields.                      *)
(*  - ConcSpec: two requests in flight, one step per line of               *)
(*    upload_assignment and of download; opened files are tracked.         *)
(*  - HashSpec: _get_sha1 applied to streams and block sizes drawn from    *)
(*    bounded sets.                                                        *)
(*                                                                         *)
(* Modelling decisions.                                                    *)
(*  - An assignment to a Scope.user_state field (self.uploaded_sha1 = ...) *)
(*    is a point write of that key into the student's stored state, in     *)
(*    program order; reading self.<field> reads the stored state and       *)
(*    yields the field's default when the key is absent.                   *)
(*  - Python values of different types are tagged tuples so that they can  *)
(*    be compared: None, a hex digest <<"sha1", bytes>>, a datetime        *)
(*    <<"utc", n>>. A filename is the sequence of its tokens,              *)
(*    <<"report", ".", "pdf">>; a location url is <<"i4x://", rest>>.      *)
(*  - hashlib.sha1 is taken collision free: the digest object holds the    *)
(*    bytes fed to it and hexdigest() is injective in them.                *)
(*  - self.store_file (line 186) is defined nowhere in the class: the call *)
(*    raises AttributeError unless the host class supplies the attribute,  *)
(*    in which case it returns without touching the modelled state. Both   *)
(*    outcomes are kept.                                                   *)
(*  - File(file) at line 190 wraps the Python 2 builtin type `file`, not   *)
(*    upload.file: default_storage.save cannot read any chunk from it and  *)
(*    raises. Depending on the backend the failed save leaves nothing or   *)
(*    leaves the empty file it had created under the available name. Both  *)
(*    outcomes are kept.                                                   *)
(***************************************************************************)
EXTENDS Integers, Sequences, FiniteSets, TLC

(* ------------------------------ bounds -------------------------------- *)

\* _now() is read at most MaxClock times (one reading per upload).
MaxClock == 2
Students == {"s1", "s2"}
Locations == {<<"i4x://", "org/course/sga/a1">>, <<"i4x://", "org/course/sga/a2">>}
FileNames == { <<"report", ".", "pdf">>, <<"notes", ".", "xyz">> }

\* Uploaded byte streams: the empty file and a one-byte file.
Contents == {<<>>, <<1>>}

\* StudentModule primary keys: one row per (location, student) of the
\* enrolment: both students take assignment a1, only s1 takes a2.
ModuleIds ==
  { <<<<"i4x://", "org/course/sga/a1">>, "s1">>,
    <<<<"i4x://", "org/course/sga/a1">>, "s2">>,
    <<<<"i4x://", "org/course/sga/a2">>, "s1">> }

(* --------------------------- Python values ---------------------------- *)

None == <<"None">>

\* BLOCK_SIZE = 2**10 * 8 (both in download and in _get_sha1)
BLOCK_SIZE == 8192

\* Field defaults of the user_state fields.
FieldDefault(name) == IF name = "score" THEN <<"num", 0>> ELSE None

\* self.<name>: the stored value, or the field's default.
GetField(state, name) ==
  IF name \in DOMAIN state THEN state[name] ELSE FieldDefault(name)

\* state.get(name) on the decoded JSON state.
DictGet(state, name) ==
  IF name \in DOMAIN state THEN state[name] ELSE None

\* Variant of SetField that replaces the whole state by the one key.
SetField_replacing(state, name, value) ==
  [k \in {name} |-> value]

\* self.<name> = value: point write of one key.
SetField(state, name, value) ==
  [k \in DOMAIN state \cup {name} |-> IF k = name THEN value ELSE state[k]]

(* ------------------------------ streams ------------------------------- *)

Min(a, b) == IF a < b THEN a ELSE b

\* file.read(n) at position pos: the bytes returned.
FileRead(bytes, pos, n) == SubSeq(bytes, pos + 1, Min(Len(bytes), pos + n))

\* iter(partial(file.read, bs), ''): the blocks produced from position pos
\* until read() returns the empty string.
\* Variant of ReadBlocks that stops after the first block.
ReadBlocks_first(bytes, pos, bs) ==
  LET block == FileRead(bytes, pos, bs)
  IN  IF block = <<>> THEN <<>> ELSE <<block>>

RECURSIVE ReadBlocks(_, _, _)
ReadBlocks(bytes, pos, bs) ==
  LET block == FileRead(bytes, pos, bs)
  IN  IF block = <<>> THEN <<>>
      ELSE <<block>> \o ReadBlocks(bytes, pos + Len(block), bs)

RECURSIVE Sha1Update(_, _)
Sha1Update(digest, blocks) ==
  IF blocks = <<>> THEN digest
  ELSE Sha1Update(digest \o Head(blocks), Tail(blocks))

\* _get_sha1(file), with the block size as a parameter: the hex digest
\* returned and the position the stream is left at by file.seek(0).
get_sha1_bs(file, bs) ==
  [ hexdigest |-> <<"sha1", Sha1Update(<<>>, ReadBlocks(file.bytes, file.pos, bs))>>,
    pos |-> 0 ]

_get_sha1(file) == get_sha1_bs(file, BLOCK_SIZE)

(* ----------------------------- filenames ------------------------------ *)

RECURSIVE rfind(_, _, _)
rfind(name, tok, i) ==
  IF i = 0 THEN 0
  ELSE IF name[i] = tok THEN i ELSE rfind(name, tok, i - 1)

\* os.path.splitext(filename): <<root, ext>>. The extension starts at the
\* last dot of the basename, provided a non-dot token precedes it there.
splitext(name) ==
  LET sepIndex == rfind(name, "/", Len(name))
      dotIndex == rfind(name, ".", Len(name))
  IN  IF dotIndex > sepIndex
         /\ \E k \in (sepIndex + 1)..(dotIndex - 1) : name[k] # "."
      THEN <<SubSeq(name, 1, dotIndex - 1), SubSeq(name, dotIndex, Len(name))>>
      ELSE <<name, <<>>>>

\* mimetypes.types_map restricted to the extensions of FileNames.
TypesMap == (<<".", "pdf">> :> "application/pdf")

\* mimetypes.guess_type(name): <<type, encoding>>, type None when the
\* extension is not in the map.
guess_type(name) ==
  LET ext == splitext(name)[2]
  IN  IF ext \in DOMAIN TypesMap THEN <<<<"str", TypesMap[ext]>>, None>>
      ELSE <<None, None>>

(* ------------------------------- paths -------------------------------- *)

\* _file_storage_path(url, sha1, filename). The result is either the path
\* or the exception raised: str + None is a TypeError, splitext(None) an
\* AttributeError.
_file_storage_path(url, sha1, filename) ==
  IF url[1] # "i4x://" THEN [err |-> "AssertionError"]
  ELSE IF sha1 = None THEN [err |-> "TypeError"]
  ELSE IF filename = None THEN [err |-> "AttributeError"]
  ELSE [err |-> "", path |-> <<url[2], "/", sha1, splitext(filename)[2]>>]

(* ------------------------------- state -------------------------------- *)

VARIABLES
  modules,   \* StudentModule rows: module id -> decoded JSON state
  blobs,     \* default_storage: <<path, n>> -> bytes (n > 0: alternate name)
  clock,     \* number of _now() readings so far
  resp,      \* the response (or exception) of the latest request
  settings,  \* Scope.settings fields of each block: display_name, points, weight
  pc,        \* concurrent requests: the line each worker is about to run
  req,       \* concurrent requests: each worker's request and locals
  streams,   \* files opened by default_storage.open and not yet closed
  hrun       \* a run of _get_sha1: the stream, the block size, the result

vars == <<modules, blobs, clock, resp, settings, pc, req, streams, hrun>>

\* The state of the concurrent workers.
conc == <<pc, req, streams>>

NoInput == [bytes |-> <<>>, name |-> None]

NoResp == [op |-> "", who |-> "", is_staff |-> FALSE, mid |-> <<<<"", "">>, "">>,
           status |-> "", body |-> <<>>, content_type |-> None,
           content_disposition |-> None, json |-> None, assignments |-> {},
           input |-> NoInput, after_upload |-> FALSE]

\* The row of a module, {} when the student has no row yet.
StateOf(mods, mid) == IF mid \in DOMAIN mods THEN mods[mid] ELSE <<>>

\* Point write of one user_state field of one student.
WriteField(mods, mid, name, value) ==
  [k \in DOMAIN mods \cup {mid} |->
     IF k = mid THEN SetField(StateOf(mods, mid), name, value) ELSE mods[k]]

\* default_storage.exists(path)
exists(store, path) == <<path, 0>> \in DOMAIN store

\* Storage.get_available_name(path): the path itself when it is free,
\* otherwise the first free alternate name.
get_available_name(store, path) ==
  LET n == CHOOSE i \in 0..Cardinality(DOMAIN store) :
             /\ <<path, i>> \notin DOMAIN store
             /\ \A j \in 0..(i - 1) : <<path, j>> \in DOMAIN store
  IN  <<path, n>>

\* default_storage.save(path, File(file)) with the builtin type as content:
\* the stores the call can leave behind when it raises.
save_File_file(store, path) ==
  { store,
    [k \in DOMAIN store \cup {get_available_name(store, path)} |->
       IF k \in DOMAIN store THEN store[k] ELSE <<>>] }

\* Variant of student_state that also hands out the content hash.
student_state_leaks(state) ==
  IF GetField(state, "uploaded_sha1") # None
  THEN [uploaded |-> <<"dict", [filename |-> GetField(state, "uploaded_filename"),
                                sha1 |-> GetField(state, "uploaded_sha1")]>>]
  ELSE [uploaded |-> None]

\* student_state(self)
student_state(state) ==
  IF GetField(state, "uploaded_sha1") # None
  THEN [uploaded |-> <<"dict", [filename |-> GetField(state, "uploaded_filename")]>>]
  ELSE [uploaded |-> None]

RECURSIVE Concat(_)
Concat(blocks) == IF blocks = <<>> THEN <<>> ELSE Head(blocks) \o Concat(Tail(blocks))

Raised(err) == [status |-> err, body |-> <<>>, content_type |-> None,
                content_disposition |-> None]

\* download(self, path, mimetype, filename): default_storage.open raises
\* the backend's IOError (ENOENT) when nothing is stored at path and the
\* handler lets it escape; otherwise the response streams the blocks of the
\* opened file.
download(store, path, mimetype, filename) ==
  IF ~exists(store, path) THEN Raised("IOError")
  ELSE IF filename = None THEN Raised("TypeError")
  ELSE [status |-> "ok",
        body |-> Concat(ReadBlocks(store[<<path, 0>>], 0, BLOCK_SIZE)),
        content_type |-> mimetype,
        content_disposition |-> <<"attachment; filename=", filename>>]

\* staff_grading_data(self): one entry per StudentModule row of the block's
\* location.
get_student_data(mods, mid) ==
  [ module_id |-> mid,
    username  |-> mid[2],
    fullname  |-> <<"profile.name", mid[2]>>,
    filename  |-> DictGet(mods[mid], "uploaded_filename"),
    timestamp |-> DictGet(mods[mid], "uploaded_timestamp"),
    score     |-> DictGet(mods[mid], "score") ]

\* Variant of staff_grading_data whose query is not restricted to the
\* block's location.
staff_grading_data_unfiltered(mods, loc) ==
  { get_student_data(mods, mid) : mid \in DOMAIN mods }

staff_grading_data(mods, loc) ==
  { get_student_data(mods, mid) : mid \in {m \in DOMAIN mods : m[1] = loc} }

Workers == {"w1", "w2"}

\* A worker that has no request.
NoReq == [op |-> "", s |-> "", loc |-> <<"", "">>, file |-> NoInput,
          path |-> None, ts |-> None, status |-> "", body |-> <<>>]

\* The Scope.settings defaults: display_name, points, weight.
SettingsDefault ==
  [display_name |-> "Staff Graded Assignment", points |-> 100, weight |-> None]

NoHash == [file |-> [bytes |-> <<>>, pos |-> 0], bs |-> 0, out |-> None]

Init ==
  /\ modules = <<>>
  /\ blobs = <<>>
  /\ clock = 0
  /\ resp = NoResp
  /\ settings = [loc \in Locations |-> SettingsDefault]
  /\ pc = [w \in Workers |-> "idle"]
  /\ req = [w \in Workers |-> NoReq]
  /\ streams = {}
  /\ hrun = NoHash

(* ------------------------------ actions ------------------------------- *)

\* The host creates the (empty) StudentModule row of a student who opens
\* the assignment for the first time.
create_row(mods, mid) ==
  [k \in DOMAIN mods \cup {mid} |-> IF k = mid THEN StateOf(mods, mid) ELSE mods[k]]

\* student_view: the page is rendered with json.dumps(self.student_state()).
student_view(loc, s) ==
  /\ modules' = create_row(modules, <<loc, s>>)
  /\ resp' = [NoResp EXCEPT !.op = "student_view", !.who = s, !.mid = <<loc, s>>,
                            !.status = "ok",
                            !.json = student_state(StateOf(modules, <<loc, s>>))]
  /\ UNCHANGED <<blobs, clock, settings, conc, hrun>>

\* upload_assignment, lines 182-185: the four field writes, in order.
upload_l182(mods, mid, file) ==
  WriteField(mods, mid, "uploaded_sha1", _get_sha1(file).hexdigest)
upload_l183(mods, mid, file) ==
  WriteField(mods, mid, "uploaded_filename", file.name)
upload_l184(mods, mid, file) ==
  WriteField(mods, mid, "uploaded_mimetype", guess_type(file.name)[1])
upload_l185(mods, mid, now) ==
  WriteField(mods, mid, "uploaded_timestamp", now)

upload_fields(mods, mid, file, now) ==
  upload_l185(upload_l184(upload_l183(upload_l182(mods, mid, file), mid, file), mid, file),
              mid, now)

\* lines 187-188: the path, from the fields as stored.
upload_path(mods, mid) ==
  _file_storage_path(mid[1], GetField(StateOf(mods, mid), "uploaded_sha1"),
                     GetField(StateOf(mods, mid), "uploaded_filename"))

\* Variant of the guard of line 189 that saves whether or not the path is
\* already taken.
upload_must_save_always(store, path) == TRUE

\* line 189: if not default_storage.exists(path)
upload_must_save(store, path) == ~exists(store, path)

UploadResp(s, loc, file, status, json) ==
  [NoResp EXCEPT !.op = "upload", !.who = s, !.mid = <<loc, s>>,
                 !.status = status, !.json = json,
                 !.input = [bytes |-> file.bytes, name |-> file.name]]

\* _now()
now == <<"utc", clock>>

\* upload_assignment, line 181: request.params['assignment'] raises KeyError
\* when the request has no file part.
upload_no_file(s, loc) ==
  /\ resp' = [NoResp EXCEPT !.op = "upload", !.who = s, !.mid = <<loc, s>>,
                            !.status = "KeyError"]
  /\ UNCHANGED <<modules, blobs, clock, settings, conc, hrun>>

\* upload_assignment up to line 186, where self.store_file raises.
upload_store_file_raises(s, loc, file) ==
  /\ clock < MaxClock
  /\ modules' = upload_fields(modules, <<loc, s>>, file, now)
  /\ clock' = clock + 1
  /\ resp' = UploadResp(s, loc, file, "AttributeError", None)
  /\ UNCHANGED <<blobs, settings, conc, hrun>>

\* upload_assignment when self.store_file returns: lines 182-191.
upload_assignment(s, loc, file) ==
  /\ clock < MaxClock
  /\ modules' = upload_fields(modules, <<loc, s>>, file, now)
  /\ clock' = clock + 1
  /\ UNCHANGED <<settings, conc, hrun>>
  /\ LET r == upload_path(modules', <<loc, s>>)
     IN  IF r.err # ""
         THEN /\ resp' = UploadResp(s, loc, file, r.err, None)
              /\ UNCHANGED blobs
         ELSE IF upload_must_save(blobs, r.path)
         THEN /\ blobs' \in save_File_file(blobs, r.path)
              /\ resp' = UploadResp(s, loc, file, "TypeError", None)
         ELSE /\ resp' = UploadResp(s, loc, file, "ok",
                                    student_state(StateOf(modules', <<loc, s>>)))
              /\ UNCHANGED blobs

DownloadResp(op, who, isStaff, mid, r) ==
  [NoResp EXCEPT !.op = op, !.who = who, !.is_staff = isStaff, !.mid = mid,
                 !.status = r.status, !.body = r.body,
                 !.content_type = r.content_type,
                 !.content_disposition = r.content_disposition]

\* download_assignment: the caller's own record.
download_assignment(s, loc) ==
  /\ LET state == StateOf(modules, <<loc, s>>)
         r == _file_storage_path(loc, GetField(state, "uploaded_sha1"),
                                 GetField(state, "uploaded_filename"))
         out == IF r.err # "" THEN Raised(r.err)
                ELSE download(blobs, r.path, GetField(state, "uploaded_mimetype"),
                              GetField(state, "uploaded_filename"))
         after == resp.op = "upload" /\ resp.status = "ok" /\ resp.mid = <<loc, s>>
     IN  resp' = [DownloadResp("download", s, FALSE, <<loc, s>>, out)
                    EXCEPT !.after_upload = after,
                           !.input = IF after THEN resp.input ELSE NoInput]
  /\ UNCHANGED <<modules, blobs, clock, settings, conc, hrun>>

\* staff_download: the record named by request.params['module_id']. The
\* handler does not consult the caller's staff flag.
staff_download(isStaff, mid) ==
  /\ LET out ==
           IF mid \notin DOMAIN modules THEN Raised("DoesNotExist")
           ELSE LET state == modules[mid]
                IN  IF {"uploaded_sha1", "uploaded_filename"} \subseteq DOMAIN state
                    THEN LET r == _file_storage_path(mid[1], state["uploaded_sha1"],
                                                     state["uploaded_filename"])
                         IN  IF r.err # "" THEN Raised(r.err)
                             ELSE IF "uploaded_mimetype" \notin DOMAIN state
                             THEN Raised("KeyError")
                             ELSE download(blobs, r.path, state["uploaded_mimetype"],
                                           state["uploaded_filename"])
                    ELSE Raised("KeyError")
     IN  resp' = DownloadResp("staff_download", "staff", isStaff, mid, out)
  /\ UNCHANGED <<modules, blobs, clock, settings, conc, hrun>>

\* get_staff_grading_data
get_staff_grading_data(loc) ==
  /\ resp' = [NoResp EXCEPT !.op = "grading_data", !.who = "staff",
                            !.mid = <<loc, "">>, !.status = "ok",
                            !.assignments = staff_grading_data(modules, loc)]
  /\ UNCHANGED <<modules, blobs, clock, settings, conc, hrun>>

Files == {[bytes |-> b, pos |-> 0, name |-> n] : b \in Contents, n \in FileNames}

\* Requests are handled one at a time, each handler running to completion.
Next ==
  \/ \E mid \in ModuleIds : student_view(mid[1], mid[2])
  \/ \E mid \in ModuleIds : upload_no_file(mid[2], mid[1])
  \/ \E mid \in ModuleIds, file \in Files : upload_store_file_raises(mid[2], mid[1], file)
  \/ \E mid \in ModuleIds, file \in Files : upload_assignment(mid[2], mid[1], file)
  \/ \E mid \in ModuleIds : download_assignment(mid[2], mid[1])
  \/ \E isStaff \in BOOLEAN, mid \in ModuleIds : staff_download(isStaff, mid)
  \/ \E loc \in Locations : get_staff_grading_data(loc)

Spec == Init /\ [][Next]_vars

TypeOK ==
  /\ DOMAIN modules \subseteq ModuleIds
  /\ clock \in 0..MaxClock

(* ---------------------- grading and settings --------------------------- *)

\* Staff grade a student: the score is written into the student's row.
enter_grade(mid, score) ==
  /\ mid \in DOMAIN modules
  /\ modules' = WriteField(modules, mid, "score", score)
  /\ resp' = [NoResp EXCEPT !.op = "enter_grade", !.who = "staff", !.mid = mid,
                            !.status = "ok"]
  /\ UNCHANGED <<blobs, clock, settings, conc, hrun>>

\* save_sga: setattr(self, name, data.get(name, getattr(self, name))) for
\* display_name, points and weight.
save_sga(loc, data) ==
  /\ settings' = [settings EXCEPT ![loc] =
                    [name \in {"display_name", "points", "weight"} |->
                       IF name \in DOMAIN data THEN data[name] ELSE settings[loc][name]]]
  /\ resp' = [NoResp EXCEPT !.op = "save_sga", !.who = "staff", !.mid = <<loc, "">>,
                            !.status = "ok"]
  /\ UNCHANGED <<modules, blobs, clock, conc, hrun>>

\* Scores entered and settings submitted from the editing form.
Scores == {<<"num", 85>>}
StudioData == {[display_name |-> "Essay", points |-> 50]}
FrameFiles == {file \in Files : file.bytes # <<>> /\ splitext(file.name)[2] = <<".", "pdf">>}

\* The handlers of Spec, together with grading and the settings editor.
FrameNext ==
  \/ \E mid \in ModuleIds : student_view(mid[1], mid[2])
  \/ \E mid \in ModuleIds : upload_no_file(mid[2], mid[1])
  \/ \E mid \in ModuleIds, file \in FrameFiles : upload_store_file_raises(mid[2], mid[1], file)
  \/ \E mid \in ModuleIds, file \in FrameFiles : upload_assignment(mid[2], mid[1], file)
  \/ \E mid \in ModuleIds : download_assignment(mid[2], mid[1])
  \/ \E mid \in ModuleIds : staff_download(TRUE, mid)
  \/ \E loc \in Locations : get_staff_grading_data(loc)
  \/ \E mid \in ModuleIds, score \in Scores : enter_grade(mid, score)
  \/ \E loc \in Locations, data \in StudioData : save_sga(loc, data)

FrameSpec == Init /\ [][FrameNext]_vars

(* ------------------------ concurrent requests ------------------------- *)

\* Two requests are served at the same time, each by its own worker on its
\* own block instance; a step is one line of the handler. The store and the
\* student state are shared, nothing in the handlers locks them.

Goto(w, line) == pc' = [pc EXCEPT ![w] = line]

\* The handler of worker w ends with the given status.
Finish(w, status) ==
  /\ pc' = [pc EXCEPT ![w] = "done"]
  /\ req' = [req EXCEPT ![w].status = status]

\* line 181: upload = request.params['assignment']
conc_upload_l181(w, s, loc, file) ==
  /\ pc[w] = "idle"
  /\ Goto(w, "l182")
  /\ req' = [req EXCEPT ![w] = [NoReq EXCEPT !.op = "upload", !.s = s,
                                             !.loc = loc, !.file = file]]
  /\ UNCHANGED <<modules, blobs, clock, resp, settings, streams, hrun>>

\* lines 182-184: one field assignment each.
conc_upload_l182(w) ==
  /\ pc[w] = "l182"
  /\ modules' = upload_l182(modules, <<req[w].loc, req[w].s>>, req[w].file)
  /\ Goto(w, "l183")
  /\ UNCHANGED <<blobs, clock, resp, settings, req, streams, hrun>>

conc_upload_l183(w) ==
  /\ pc[w] = "l183"
  /\ modules' = upload_l183(modules, <<req[w].loc, req[w].s>>, req[w].file)
  /\ Goto(w, "l184")
  /\ UNCHANGED <<blobs, clock, resp, settings, req, streams, hrun>>

conc_upload_l184(w) ==
  /\ pc[w] = "l184"
  /\ modules' = upload_l184(modules, <<req[w].loc, req[w].s>>, req[w].file)
  /\ Goto(w, "l185")
  /\ UNCHANGED <<blobs, clock, resp, settings, req, streams, hrun>>

\* line 185: self.uploaded_timestamp = _now()
conc_upload_l185(w) ==
  /\ pc[w] = "l185"
  /\ clock < MaxClock
  /\ modules' = upload_l185(modules, <<req[w].loc, req[w].s>>, now)
  /\ clock' = clock + 1
  /\ req' = [req EXCEPT ![w].ts = now]
  /\ Goto(w, "l186")
  /\ UNCHANGED <<blobs, resp, settings, streams, hrun>>

\* line 186: self.store_file raises AttributeError.
conc_upload_l186_raises(w) ==
  /\ pc[w] = "l186"
  /\ Finish(w, "AttributeError")
  /\ UNCHANGED <<modules, blobs, clock, resp, settings, streams, hrun>>

\* line 186: self.store_file returns.
conc_upload_l186(w) ==
  /\ pc[w] = "l186"
  /\ Goto(w, "l187")
  /\ UNCHANGED <<modules, blobs, clock, resp, settings, req, streams, hrun>>

\* lines 187-188: the path, from the fields as stored at this moment.
conc_upload_l187(w) ==
  /\ pc[w] = "l187"
  /\ LET r == upload_path(modules, <<req[w].loc, req[w].s>>)
     IN  IF r.err # "" THEN Finish(w, r.err)
         ELSE /\ Goto(w, "l189")
              /\ req' = [req EXCEPT ![w].path = r.path]
  /\ UNCHANGED <<modules, blobs, clock, resp, settings, streams, hrun>>

\* line 189: if not default_storage.exists(path)
conc_upload_l189(w) ==
  /\ pc[w] = "l189"
  /\ IF upload_must_save(blobs, req[w].path) THEN Goto(w, "l190") ELSE Goto(w, "l191")
  /\ UNCHANGED <<modules, blobs, clock, resp, settings, req, streams, hrun>>

\* line 190: default_storage.save(path, File(file)) raises.
conc_upload_l190(w) ==
  /\ pc[w] = "l190"
  /\ blobs' \in save_File_file(blobs, req[w].path)
  /\ Finish(w, "TypeError")
  /\ UNCHANGED <<modules, clock, resp, settings, streams, hrun>>

\* line 191: return Response(json_body=self.student_state())
conc_upload_l191(w) ==
  /\ pc[w] = "l191"
  /\ Finish(w, "ok")
  /\ UNCHANGED <<modules, blobs, clock, resp, settings, streams, hrun>>

\* download_assignment, lines 195-196: the path of the caller's record.
conc_download_l195(w, s, loc) ==
  /\ pc[w] = "idle"
  /\ LET state == StateOf(modules, <<loc, s>>)
         r == _file_storage_path(loc, GetField(state, "uploaded_sha1"),
                                 GetField(state, "uploaded_filename"))
         rq == [NoReq EXCEPT !.op = "download", !.s = s, !.loc = loc]
     IN  IF r.err # ""
         THEN /\ pc' = [pc EXCEPT ![w] = "done"]
              /\ req' = [req EXCEPT ![w] = [rq EXCEPT !.status = r.err]]
         ELSE /\ Goto(w, "l203")
              /\ req' = [req EXCEPT ![w] = [rq EXCEPT !.path = r.path]]
  /\ UNCHANGED <<modules, blobs, clock, resp, settings, streams, hrun>>

\* A file object as opened by default_storage.open.
Stream(w, path) == [owner |-> w, path |-> path, pos |-> 0]

\* download, lines 203-208: open the file and build the response around
\* the block iterator. The concatenation at line 208 raises TypeError when
\* the filename is None, with the file already open.
conc_download_l203(w) ==
  /\ pc[w] = "l203"
  /\ LET filename == GetField(StateOf(modules, <<req[w].loc, req[w].s>>), "uploaded_filename")
     IN  IF ~exists(blobs, req[w].path)
         THEN Finish(w, "IOError") /\ UNCHANGED streams
         ELSE /\ streams' = streams \cup {Stream(w, req[w].path)}
              /\ IF filename = None THEN Finish(w, "TypeError")
                 ELSE Goto(w, "app_iter") /\ UNCHANGED req
  /\ UNCHANGED <<modules, blobs, clock, resp, settings, hrun>>

\* The server takes the next block of app_iter: file.read(BLOCK_SIZE); the
\* iteration ends with the '' block. Nothing closes the file.
conc_download_read(w) ==
  /\ pc[w] = "app_iter"
  /\ \E f \in streams :
       /\ f.owner = w
       /\ LET block == FileRead(blobs[<<f.path, 0>>], f.pos, BLOCK_SIZE)
          IN  IF block = <<>>
              THEN Finish(w, "ok") /\ UNCHANGED streams
              ELSE /\ streams' = (streams \ {f}) \cup {[f EXCEPT !.pos = f.pos + Len(block)]}
                   /\ req' = [req EXCEPT ![w].body = req[w].body \o block]
                   /\ UNCHANGED pc
  /\ UNCHANGED <<modules, blobs, clock, resp, settings, hrun>>

\* file.read raises while the response is streamed.
conc_download_read_fails(w) ==
  /\ pc[w] = "app_iter"
  /\ Finish(w, "IOError")
  /\ UNCHANGED <<modules, blobs, clock, resp, settings, streams, hrun>>

\* The client goes away: the server drops the response without taking
\* another block.
conc_download_abandoned(w) ==
  /\ pc[w] = "app_iter"
  /\ Finish(w, "abandoned")
  /\ UNCHANGED <<modules, blobs, clock, resp, settings, streams, hrun>>

\* The only release of an opened file: the interpreter finalises the file
\* object some time after the last reference to it is gone. The language
\* does not say when, or that it happens.
file_finalized(w) ==
  /\ pc[w] = "done"
  /\ \E f \in streams : f.owner = w /\ streams' = streams \ {f}
  /\ UNCHANGED <<modules, blobs, clock, resp, settings, pc, req, hrun>>

ConcNext ==
  \/ \E w \in Workers, mid \in ModuleIds, file \in Files :
       conc_upload_l181(w, mid[2], mid[1], file)
  \/ \E w \in Workers : conc_upload_l182(w)
  \/ \E w \in Workers : conc_upload_l183(w)
  \/ \E w \in Workers : conc_upload_l184(w)
  \/ \E w \in Workers : conc_upload_l185(w)
  \/ \E w \in Workers : conc_upload_l186_raises(w)
  \/ \E w \in Workers : conc_upload_l186(w)
  \/ \E w \in Workers : conc_upload_l187(w)
  \/ \E w \in Workers : conc_upload_l189(w)
  \/ \E w \in Workers : conc_upload_l190(w)
  \/ \E w \in Workers : conc_upload_l191(w)
  \/ \E w \in Workers, mid \in ModuleIds : conc_download_l195(w, mid[2], mid[1])
  \/ \E w \in Workers : conc_download_l203(w)
  \/ \E w \in Workers : conc_download_read(w)
  \/ \E w \in Workers : conc_download_read_fails(w)
  \/ \E w \in Workers : conc_download_abandoned(w)
  \/ \E w \in Workers : file_finalized(w)

ConcSpec == Init /\ [][ConcNext]_vars

(* ------------------------------ hashing ------------------------------- *)

\* Streams of up to MaxHashLen bytes are hashed with block sizes up to
\* MaxBlock and with the program's BLOCK_SIZE.
MaxHashLen == 3
MaxBlock == 3
HashBytes == {1, 2}
HashStreams == UNION { [1..n -> HashBytes] : n \in 0..MaxHashLen }
BlockSizes == (1..MaxBlock) \cup {BLOCK_SIZE}

HashInit ==
  /\ modules = <<>>
  /\ blobs = <<>>
  /\ clock = 0
  /\ resp = NoResp
  /\ settings = [loc \in Locations |-> SettingsDefault]
  /\ pc = [w \in Workers |-> "idle"]
  /\ req = [w \in Workers |-> NoReq]
  /\ streams = {}
  /\ hrun \in {[file |-> [bytes |-> B, pos |-> 0], bs |-> bs, out |-> None] :
                 B \in HashStreams, bs \in BlockSizes}

\* _get_sha1(file) on a fresh upload stream.
hash_stream ==
  /\ hrun.out = None
  /\ LET r == get_sha1_bs(hrun.file, hrun.bs)
     IN  hrun' = [hrun EXCEPT !.out = r.hexdigest, !.file.pos = r.pos]
  /\ UNCHANGED <<modules, blobs, clock, resp, settings, conc>>

HashNext == hash_stream

HashSpec == HashInit /\ [][HashNext]_vars

(* ------------------------------- claims ------------------------------- *)

Sha1Of(state) == GetField(state, "uploaded_sha1")
FilenameOf(state) == GetField(state, "uploaded_filename")

\* The storage path a record refers to.
PathOf(mid) ==
  _file_storage_path(mid[1], Sha1Of(StateOf(modules, mid)), FilenameOf(StateOf(modules, mid)))

Submitted(mid) == Sha1Of(StateOf(modules, mid)) # None

\* C1: every record whose content hash is set refers to a blob that exists
\* in the blob store at the path derived from its location, hash and
\* filename, also after an upload that failed part-way.
C1_RecordImpliesBlob ==
  \A mid \in DOMAIN modules :
    Submitted(mid) => PathOf(mid).err = "" /\ exists(blobs, PathOf(mid).path)

\* C2: in every record the content hash is set if and only if the filename,
\* the mime type and the upload time are all set.
C2_AllOrNothing ==
  \A mid \in DOMAIN modules :
    Submitted(mid) <=>
      /\ GetField(modules[mid], "uploaded_filename") # None
      /\ GetField(modules[mid], "uploaded_mimetype") # None
      /\ GetField(modules[mid], "uploaded_timestamp") # None

\* The path an upload response was computed for.
UploadedPath(r) ==
  _file_storage_path(r.mid[1], _get_sha1([bytes |-> r.input.bytes, pos |-> 0]).hexdigest,
                     r.input.name).path

C4_OneBlobTwoRecords ==
  \A m1 \in DOMAIN modules, m2 \in DOMAIN modules :
    (/\ m1 # m2 /\ m1[1] = m2[1]
     /\ Submitted(m1) /\ Submitted(m2)
     /\ PathOf(m1) = PathOf(m2))
      => Cardinality({k \in DOMAIN blobs : k[1] = PathOf(m1).path}) = 1

\* C5: a self-download that directly follows the same student's successful
\* upload returns the uploaded bytes and the uploaded filename.
C5_UploadThenDownload ==
  (resp.op = "download" /\ resp.after_upload)
    => /\ resp.status = "ok"
       /\ resp.body = resp.input.bytes
       /\ resp.content_disposition = <<"attachment; filename=", resp.input.name>>

\* C6: a staff download by a caller whose staff flag is false fails with
\* AuthorizationError and returns no bytes, whatever the referenced record.
C6_NonStaffDenied ==
  (resp.op = "staff_download" /\ ~resp.is_staff)
    => resp.status = "AuthorizationError" /\ resp.body = <<>>

\* C7: a self-download, or a staff download of an existing record, whose
\* record has no content hash fails with NoSubmissionError.
C7_NoSubmissionError ==
  (/\ resp.op \in {"download", "staff_download"}
   /\ resp.op = "staff_download" => resp.mid \in DOMAIN modules
   /\ ~Submitted(resp.mid))
    => resp.status = "NoSubmissionError"

\* C8: a download of a record whose content hash is set but whose blob is
\* missing from the store fails with NotFoundError and returns no body.
C8_MissingBlobNotFound ==
  (/\ resp.op \in {"download", "staff_download"}
   /\ Submitted(resp.mid)
   /\ PathOf(resp.mid).err = ""
   /\ ~exists(blobs, PathOf(resp.mid).path))
    => resp.status = "NotFoundError" /\ resp.body = <<>>

\* C9: the student-facing projection of a record is {uploaded: null} when
\* the content hash is empty and {uploaded: {filename}} otherwise, nothing
\* else: records that agree on the filename and on whether a hash is set
\* have the same projection, the response of a successful upload is the
\* projection with the uploaded filename and the page of student_view
\* carries the projection of the viewer's record.
C9_Projection ==
  /\ \A mid \in ModuleIds :
       LET state == StateOf(modules, mid)
           p == student_state(state)
       IN  /\ DOMAIN p = {"uploaded"}
           /\ ~Submitted(mid) => p.uploaded = None
           /\ Submitted(mid) =>
                /\ p.uploaded[1] = "dict"
                /\ DOMAIN p.uploaded[2] = {"filename"}
                /\ p.uploaded[2].filename = FilenameOf(state)
  /\ \A m1 \in ModuleIds, m2 \in ModuleIds :
       (/\ Submitted(m1) <=> Submitted(m2)
        /\ Submitted(m1) => FilenameOf(StateOf(modules, m1)) = FilenameOf(StateOf(modules, m2)))
         => student_state(StateOf(modules, m1)) = student_state(StateOf(modules, m2))
  /\ (resp.op = "upload" /\ resp.status = "ok")
       => resp.json = [uploaded |-> <<"dict", [filename |-> resp.input.name]>>]
  /\ resp.op = "student_view"
       => resp.json = IF Submitted(resp.mid)
                      THEN [uploaded |-> <<"dict", [filename |-> FilenameOf(modules[resp.mid])]>>]
                      ELSE [uploaded |-> None]

\* C9 witness: a student whose record holds a hash has been shown the
\* projection while another record has the same filename and a different
\* hash and a third student has not submitted.
C9_Witness ==
  /\ resp.op = "student_view" /\ Submitted(resp.mid)
  /\ \E m2 \in DOMAIN modules :
       /\ Submitted(m2)
       /\ Sha1Of(modules[m2]) # Sha1Of(modules[resp.mid])
       /\ FilenameOf(modules[m2]) = FilenameOf(modules[resp.mid])
  /\ \E m3 \in ModuleIds : ~Submitted(m3)

\* C10: the grading query of an assignment has, for every student who has
\* uploaded, an entry with the uploaded filename and score 0.
C10_GradingEntry ==
  resp.op = "grading_data" =>
    \A mid \in DOMAIN modules :
      (mid[1] = resp.mid[1] /\ Submitted(mid)) =>
        \E e \in resp.assignments :
          /\ e.username = mid[2]
          /\ e.filename = FilenameOf(modules[mid])
          /\ e.score = <<"num", 0>>

\* C11: the grading query of a location returns exactly one entry for every
\* record stored under that location and none for records of other
\* locations; a record without content hash is listed with filename and
\* timestamp null, a record with one with its filename and timestamp.
C11_GradingQuery ==
  resp.op = "grading_data" =>
    LET rows == {m \in DOMAIN modules : m[1] = resp.mid[1]}
    IN  /\ {e.module_id : e \in resp.assignments} = rows
        /\ Cardinality(resp.assignments) = Cardinality(rows)
        /\ \A e \in resp.assignments :
             /\ e.username = e.module_id[2]
             /\ e.module_id \in rows =>
                  IF Submitted(e.module_id)
                  THEN /\ e.filename = FilenameOf(modules[e.module_id])
                       /\ e.timestamp = GetField(modules[e.module_id], "uploaded_timestamp")
                  ELSE e.filename = None /\ e.timestamp = None

\* C11 witness: the query has answered for a location that holds a record
\* with an upload and a record without one, while another location holds a
\* record too.
C11_Witness ==
  /\ resp.op = "grading_data"
  /\ \E m1 \in DOMAIN modules, m2 \in DOMAIN modules, m3 \in DOMAIN modules :
       /\ m1[1] = resp.mid[1] /\ Submitted(m1)
       /\ m2[1] = resp.mid[1] /\ ~Submitted(m2)
       /\ m3[1] # resp.mid[1]

\* C14: an upload request without file part or with an empty byte stream
\* fails with InvalidUploadError and does not leave the student's record
\* marked with the (empty) submission.
C14_InvalidUpload ==
  (resp.op = "upload" /\ (resp.input.name = None \/ resp.input.bytes = <<>>))
    => /\ resp.status = "InvalidUploadError"
       /\ Sha1Of(StateOf(modules, resp.mid)) # _get_sha1([bytes |-> <<>>, pos |-> 0]).hexdigest

\* C17: every blob of the store holds bytes whose content hash is the hash
\* its path was derived from.
C17_BlobMatchesHash ==
  \A k \in DOMAIN blobs :
    _get_sha1([bytes |-> blobs[k], pos |-> 0]).hexdigest = k[1][3]

\* C12: for every byte sequence B, _get_sha1 reads the whole stream block
\* by block, returns the digest of B hashed in one piece whatever the block
\* size (the one of BLOCK_SIZE included), and leaves the stream at position
\* 0, from where a reader gets all of B.
C12_HashWholeStream ==
  hrun.out # None =>
    LET B == hrun.file.bytes
    IN  /\ Concat(ReadBlocks(B, 0, hrun.bs)) = B
        /\ \A i \in 1..Len(ReadBlocks(B, 0, hrun.bs)) :
             Len(ReadBlocks(B, 0, hrun.bs)[i]) \in 1..hrun.bs
        /\ hrun.out = <<"sha1", Sha1Update(<<>>, <<B>>)>>
        /\ hrun.out = _get_sha1([bytes |-> B, pos |-> 0]).hexdigest
        /\ hrun.file.pos = 0
        /\ FileRead(B, hrun.file.pos, Len(B)) = B

\* C12 witness: a stream longer than the block size has been hashed in
\* several blocks.
C12_Witness ==
  /\ hrun.out # None
  /\ Len(hrun.file.bytes) > hrun.bs
  /\ Len(ReadBlocks(hrun.file.bytes, 0, hrun.bs)) > 1

\* All requests in flight have ended.
Quiescent == \A w \in Workers : pc[w] \in {"idle", "done"}

\* C13: when two different students have concurrently uploaded identical
\* bytes with the same extension to the same location, whatever the
\* interleaving, neither upload has failed, the store holds exactly one blob
\* for the content, and both records refer to it.
C13_ConcurrentIdenticalUploads ==
  \A w1 \in Workers, w2 \in Workers :
    ( /\ pc[w1] = "done" /\ pc[w2] = "done"
      /\ req[w1].op = "upload" /\ req[w2].op = "upload"
      /\ req[w1].loc = req[w2].loc
      /\ req[w1].s # req[w2].s
      /\ req[w1].file.bytes = req[w2].file.bytes
      /\ splitext(req[w1].file.name)[2] = splitext(req[w2].file.name)[2] )
    => LET m1 == <<req[w1].loc, req[w1].s>>
           m2 == <<req[w2].loc, req[w2].s>>
           p  == _file_storage_path(req[w1].loc, _get_sha1(req[w1].file).hexdigest,
                                    req[w1].file.name).path
       IN  /\ req[w1].status = "ok" /\ req[w2].status = "ok"
           /\ Cardinality({k \in DOMAIN blobs : k[1] = p}) = 1
           /\ PathOf(m1).err = "" /\ PathOf(m1).path = p
           /\ PathOf(m2).err = "" /\ PathOf(m2).path = p

\* The four upload fields of a record are those written by the upload of
\* worker w.
FieldsFromUpload(state, w) ==
  /\ GetField(state, "uploaded_sha1") = _get_sha1(req[w].file).hexdigest
  /\ GetField(state, "uploaded_filename") = req[w].file.name
  /\ GetField(state, "uploaded_mimetype") = guess_type(req[w].file.name)[1]
  /\ GetField(state, "uploaded_timestamp") = req[w].ts

\* The record holds none of the four upload fields.
FieldsPristine(state) ==
  \A f \in {"uploaded_sha1", "uploaded_filename", "uploaded_mimetype", "uploaded_timestamp"} :
    GetField(state, f) = None

\* C15: once the uploads of a student have ended, in whatever interleaving
\* and whether they failed or not, the four upload fields of the student's
\* record all come from one of the uploads (or the record is untouched).
C15_FieldsFromOneUpload ==
  Quiescent =>
    \A mid \in DOMAIN modules :
      \/ FieldsPristine(modules[mid])
      \/ \E w \in Workers :
           /\ req[w].op = "upload"
           /\ <<req[w].loc, req[w].s>> = mid
           /\ FieldsFromUpload(modules[mid], w)

\* C16: when every download has ended (read to exhaustion, failed, or
\* abandoned by the client), no file opened by a download is still open.
C16_StreamsReleased ==
  (\A w \in Workers : req[w].op = "download" => pc[w] = "done")
    => streams = {}

UploadFieldNames ==
  {"uploaded_sha1", "uploaded_filename", "uploaded_mimetype", "uploaded_timestamp"}

\* C18: an upload request of student S at location A changes nothing but
\* the four upload fields of S's row for A: the score of that row, every
\* other row (other students, other locations) and the settings of every
\* block stay as they were; self-download, staff-download and the grading
\* query change no row, no blob and no setting.
C18_Frame ==
  [][ /\ resp'.op = "upload" =>
           /\ \A k \in DOMAIN modules \ {resp'.mid} :
                k \in DOMAIN modules' /\ modules'[k] = modules[k]
           /\ DOMAIN modules' \subseteq DOMAIN modules \cup {resp'.mid}
           /\ \A f \in DOMAIN StateOf(modules, resp'.mid) \ UploadFieldNames :
                /\ f \in DOMAIN StateOf(modules', resp'.mid)
                /\ StateOf(modules', resp'.mid)[f] = StateOf(modules, resp'.mid)[f]
           /\ DOMAIN StateOf(modules', resp'.mid)
                \subseteq DOMAIN StateOf(modules, resp'.mid) \cup UploadFieldNames
           /\ GetField(StateOf(modules', resp'.mid), "score")
                = GetField(StateOf(modules, resp'.mid), "score")
           /\ settings' = settings
      /\ resp'.op \in {"download", "staff_download", "grading_data"} =>
           /\ modules' = modules
           /\ blobs' = blobs
           /\ settings' = settings ]_vars

\* C18 witness: a graded student has uploaded for the first time, with
\* another row present and the settings of the block edited.
C18_Witness ==
  /\ resp.op = "upload" /\ resp.input.name # None
  /\ clock = 1
  /\ GetField(StateOf(modules, resp.mid), "score") \in Scores
  /\ GetField(StateOf(modules, resp.mid), "uploaded_timestamp") = <<"utc", 0>>
  /\ \E k \in DOMAIN modules : k # resp.mid
  /\ settings[resp.mid[1]] # SettingsDefault

====
